---- MODULE Spec2Model ----
(***************************************************************************)
(* Keyboard controller for a BLE train hub (main.py).                      *)
(*                                                                         *)
(* The program is one sequential asyncio task.  Every method of TrainHub   *)
(* is an operator from hub states to hub states; what the BLE stack does   *)
(* (a write that succeeds, fails or loses the link, a scan result, a       *)
(* connect that raises) is an argument of the operator, chosen by the      *)
(* action that applies it.                                                 *)
(*                                                                         *)
(*   Spec     the program: the __main__ block and main().                  *)
(*   SpecApi  a caller that invokes TrainHub's methods and process_key     *)
(*            directly, with arguments main() never produces.              *)
(***************************************************************************)
EXTENDS Integers, Sequences, FiniteSets, TLC

VARIABLES
    pc,             \* position of the program: see Init and the actions
    os_name,        \* os.name of the host
    client,         \* self._client is not None
    connected,      \* self.connected
    current_speed,  \* self.current_speed
    is_connected,   \* self._client.is_connected: the BLE link is up
    notifying,      \* start_notify and the settle delay have completed
    scanned,        \* what discover() gave: "unset", "error", "hub", "no_hub"
    device,         \* the scan loop's `device`: "unset", "None" or "found"
    lastSent,       \* speed of the last command whose write succeeded
    issued,         \* BLE operations issued by the most recent handler, in order
    outcome,        \* how the most recent handler ended: "returned" | "raised"
    call,           \* the most recent call of main's try block, or of the
                    \* caller of SpecApi: [op, key, speed]
    keysRead,       \* keys returned by get_key so far
    calls,          \* SpecApi: steps the caller has taken so far
    exitCode        \* process exit status, -1 while running

\* The variables the methods of TrainHub read and write.
hub == <<client, connected, current_speed, is_connected, notifying, scanned,
         device, lastSent, issued, outcome>>

vars == <<pc, os_name, hub, call, keysRead, calls, exitCode>>

(***************************************************************************)
(* Bounds of the model.                                                    *)
(***************************************************************************)
MaxKeys == 11       \* keys read by the input loop
MaxDevices == 2     \* devices in one scan result
MaxCalls == 3       \* steps taken by the caller of SpecApi

(***************************************************************************)
(* Python builtins used by the code.                                       *)
(***************************************************************************)
min(a, b) == IF a <= b THEN a ELSE b

max(a, b) == IF a >= b THEN a ELSE b

abs(a) == IF a < 0 THEN -a ELSE a

(***************************************************************************)
(* Device names are sequences of characters; str.upper and `in` are        *)
(* computed on them.                                                       *)
(***************************************************************************)
upper(ch) ==
    CASE ch = "h" -> "H"
      [] ch = "u" -> "U"
      [] ch = "b" -> "B"
      [] ch = "t" -> "T"
      [] OTHER -> ch

Upper(name) == [i \in 1..Len(name) |-> upper(name[i])]

Contains(needle, hay) ==
    \E i \in 0..(Len(hay) - Len(needle)) :
        \A j \in 1..Len(needle) : hay[i + j] = needle[j]

\* Variant: the "HUB" test is missing, any named device is taken.
IsHub_any_name(d) == d.hasName /\ d.name # <<>>

\* d.name and "HUB" in d.name.upper()
IsHub(d) == d.hasName /\ d.name # <<>> /\ Contains(<<"H", "U", "B">>, Upper(d.name))

\* Devices a scan can report; hasName = FALSE is a device with name None.
Devices ==
    { [hasName |-> FALSE, name |-> <<>>],
      [hasName |-> TRUE,  name |-> <<>>],
      [hasName |-> TRUE,  name |-> <<"H", "U">>],
      [hasName |-> TRUE,  name |-> <<"h", "u", "b">>],
      [hasName |-> TRUE,  name |-> <<"T", "H", "u", "b">>] }

ScanResults == UNION { [1..n -> Devices] : n \in 0..MaxDevices }

\* The for loop of connect: the first hub of the list, 0 when there is none.
RECURSIVE FirstHubFrom(_, _)
FirstHubFrom(devices, i) ==
    IF i > Len(devices) THEN 0
    ELSE IF IsHub(devices[i]) THEN i
    ELSE FirstHubFrom(devices, i + 1)

FirstHub(devices) == FirstHubFrom(devices, 1)

(***************************************************************************)
(* BLE operations, as logged in `issued`.                                  *)
(***************************************************************************)
Op(name) == [op |-> name, data |-> <<>>]

Write(command) == [op |-> "write_gatt_char", data |-> command]

\* Outcomes of a write: it succeeds, it raises, or it raises because the
\* link went down.  On a link that is down it can only raise.
WriteOutcomes(link) == IF link THEN {"ok", "fail", "lost"} ELSE {"fail"}

CallOutcomes == {"ok", "fail"}

(***************************************************************************)
(* TrainHub.  A hub state is a record of the variables the methods touch.  *)
(***************************************************************************)
St == [client |-> client, connected |-> connected,
       current_speed |-> current_speed, is_connected |-> is_connected,
       notifying |-> notifying, scanned |-> scanned, device |-> device,
       lastSent |-> lastSent,
       issued |-> issued, outcome |-> outcome]

Assign(st) ==
    /\ client' = st.client
    /\ connected' = st.connected
    /\ current_speed' = st.current_speed
    /\ is_connected' = st.is_connected
    /\ notifying' = st.notifying
    /\ scanned' = st.scanned
    /\ device' = st.device
    /\ lastSent' = st.lastSent
    /\ issued' = st.issued
    /\ outcome' = st.outcome

\* TrainHub.__init__, before any BLE operation.
NewHub == [client |-> FALSE, connected |-> FALSE, current_speed |-> 0,
           is_connected |-> FALSE, notifying |-> FALSE, scanned |-> "unset",
           device |-> "unset",
           lastSent |-> 0, issued |-> <<>>, outcome |-> "returned"]

\* train = TrainHub()
Constructed ==
    /\ client = NewHub.client
    /\ connected = NewHub.connected
    /\ current_speed = NewHub.current_speed
    /\ is_connected = NewHub.is_connected
    /\ notifying = NewHub.notifying
    /\ scanned = NewHub.scanned
    /\ device = NewHub.device
    /\ lastSent = NewHub.lastSent
    /\ issued = NewHub.issued
    /\ outcome = NewHub.outcome

\* A handler starts: nothing issued yet, no exception yet.
Clear(st) == [st EXCEPT !.issued = <<>>]

Begin(st) == [Clear(st) EXCEPT !.outcome = "returned"]

\* Variant: the upper limit of the range check is missing.
InRange_no_upper(speed) == -100 <= speed

InRange(speed) == -100 <= speed /\ speed <= 100

\* Variant: the direction flag (128) is not added for reverse.
Power_no_flag(speed) == min(abs(speed), 100)

Power(speed) ==
    IF speed < 0 THEN min(abs(speed), 100) + 128
    ELSE min(speed, 100)

Command(speed) == <<8, 0, 129, 0, 17, 81, 1, Power(speed)>>

\* Variant: current_speed is assigned before the range check.
set_speed_assign_first(st, speed, wr) ==
    LET s1 == [st EXCEPT !.current_speed = speed] IN
    IF ~InRange(speed) \/ ~st.client THEN s1
    ELSE [s1 EXCEPT !.issued = Append(@, Write(Command(speed))),
                    !.lastSent = IF wr = "ok" THEN speed ELSE @,
                    !.is_connected = IF wr = "lost" THEN FALSE ELSE @]

\* Variant: a failed write is raised to the caller instead of being logged.
set_speed_write_raises(st, speed, wr) ==
    IF ~InRange(speed) THEN st
    ELSE LET s1 == [st EXCEPT !.current_speed = speed] IN
         IF ~st.client THEN s1
         ELSE [s1 EXCEPT !.issued = Append(@, Write(Command(speed))),
                         !.lastSent = IF wr = "ok" THEN speed ELSE @,
                         !.is_connected = IF wr = "lost" THEN FALSE ELSE @,
                         !.outcome = IF wr = "ok" THEN @ ELSE "raised"]

\* set_speed: every exception (the ValueError, the AttributeError of a None
\* client, a failed write) is caught and logged at the end of the method.
set_speed(st, speed, wr) ==
    IF ~InRange(speed) THEN st
    ELSE LET s1 == [st EXCEPT !.current_speed = speed] IN
         IF ~st.client THEN s1
         ELSE [s1 EXCEPT !.issued = Append(@, Write(Command(speed))),
                         !.lastSent = IF wr = "ok" THEN speed ELSE @,
                         !.is_connected = IF wr = "lost" THEN FALSE ELSE @]

stop(st, wr) == set_speed(st, 0, wr)

\* Variant: the clamp to 100 is missing.
increase_speed_unclamped(st, wr) == set_speed(st, st.current_speed + 10, wr)

increase_speed(st, wr) == set_speed(st, min(100, st.current_speed + 10), wr)

\* Variant: the lower clamp is off by one.
decrease_speed_clamp_99(st, wr) ==
    set_speed(st, max(-99, st.current_speed - 10), wr)

decrease_speed(st, wr) == set_speed(st, max(-100, st.current_speed - 10), wr)

\* Variant: reverse always commands the negative of the magnitude.
reverse_direction_backward(st, wr) == set_speed(st, -abs(st.current_speed), wr)

reverse_direction(st, wr) == set_speed(st, -st.current_speed, wr)

\* Variant: disconnect closes the connection without stopping the train.
disconnect_no_stop(st, wr, dc) ==
    IF st.client /\ st.is_connected
    THEN LET s2 == [st EXCEPT !.issued = Append(@, Op("disconnect"))]
         IN  IF dc = "ok"
             THEN [s2 EXCEPT !.is_connected = FALSE, !.connected = FALSE]
             ELSE [s2 EXCEPT !.outcome = "raised"]
    ELSE st

\* disconnect: wr is the outcome of the stop's write, dc that of the BLE
\* disconnect, which raises to the caller when it fails.
disconnect(st, wr, dc) ==
    IF st.client /\ st.is_connected
    THEN LET s1 == stop(st, wr)
             s2 == [s1 EXCEPT !.issued = Append(@, Op("disconnect"))]
         IN  IF dc = "ok"
             THEN [s2 EXCEPT !.is_connected = FALSE, !.connected = FALSE]
             ELSE [s2 EXCEPT !.outcome = "raised"]
    ELSE st

\* The scan result as the hub advertises it, whatever the code makes of it:
\* some device has a name with h, u, b in a row, in either letter case.
AdvertisesHub(devices) ==
    \E i \in 1..Len(devices) :
        /\ devices[i].hasName
        /\ \E k \in 1..(Len(devices[i].name) - 2) :
              /\ devices[i].name[k] \in {"h", "H"}
              /\ devices[i].name[k + 1] \in {"u", "U"}
              /\ devices[i].name[k + 2] \in {"b", "B"}

Scanned(devices, ble) ==
    IF ble = "discover" THEN "error"
    ELSE IF AdvertisesHub(devices) THEN "hub"
    ELSE "no_hub"

\* What the BLE stack does during connect: every call succeeds, or the
\* named call raises.
ConnectOutcomes == {"ok", "discover", "connect", "start_notify"}

\* connect: every exception is logged and re-raised.
connect(st, devices, ble) ==
    LET s0 == [st EXCEPT !.issued = Append(@, Op("discover")),
                         !.scanned = Scanned(devices, ble)]
        raised(s) == [s EXCEPT !.outcome = "raised"]
    IN
    IF ble = "discover" THEN raised(s0)
    ELSE IF FirstHub(devices) = 0 THEN raised([s0 EXCEPT !.device = "None"])
    ELSE LET s1 == [s0 EXCEPT !.device = "found", !.client = TRUE,
                              !.is_connected = FALSE, !.notifying = FALSE,
                              !.issued = Append(@, Op("connect"))]
         IN
         IF ble = "connect" THEN raised(s1)
         ELSE LET s2 == [s1 EXCEPT !.is_connected = TRUE, !.connected = TRUE,
                                   !.issued = Append(@, Op("start_notify"))]
              IN
              IF ble = "start_notify" THEN raised(s2)
              ELSE [s2 EXCEPT !.notifying = TRUE]

(***************************************************************************)
(* process_key: the state after the key's action and whether the loop      *)
(* continues.                                                              *)
(***************************************************************************)
Keys == {"w", "W", "A", "s", "S", "B", " ", "r", "R", "q", "Q", "x", "["}

\* Variant: a key that is not in the table stops the train.
process_key_else_stop(st, key, wr) ==
    IF key \in {"w", "W", "A"} THEN increase_speed(st, wr)
    ELSE IF key \in {"s", "S", "B"} THEN decrease_speed(st, wr)
    ELSE IF key \in {"r", "R"} THEN reverse_direction(st, wr)
    ELSE IF key \in {"q", "Q"} THEN st
    ELSE stop(st, wr)

process_key(st, key, wr) ==
    IF key \in {"w", "W", "A"} THEN increase_speed(st, wr)
    ELSE IF key \in {"s", "S", "B"} THEN decrease_speed(st, wr)
    ELSE IF key = " " THEN stop(st, wr)
    ELSE IF key \in {"r", "R"} THEN reverse_direction(st, wr)
    ELSE st

\* Variant: only the lower-case q ends the loop.
process_key_result_lower_q(key) == key # "q"

process_key_result(key) ==
    IF key \in {"w", "W", "A"} THEN TRUE
    ELSE IF key \in {"s", "S", "B"} THEN TRUE
    ELSE IF key = " " THEN TRUE
    ELSE IF key \in {"r", "R"} THEN TRUE
    ELSE IF key \in {"q", "Q"} THEN FALSE
    ELSE TRUE

Call(op, key, speed) == [op |-> op, key |-> key, speed |-> speed]

(***************************************************************************)
(* The program.                                                            *)
(*   pc: "start"    the __main__ block, before the platform check          *)
(*       "connect"  main(), TrainHub() constructed, before connect()       *)
(*       "loop"     at get_key()                                           *)
(*       "finally"  entering main's finally block                          *)
(*       "finished" main() returned or raised                              *)
(*       "exited"   the process has exited                                 *)
(***************************************************************************)
Init ==
    /\ pc = "start"
    /\ os_name \in {"posix", "nt"}
    /\ Constructed
    /\ call = Call("none", "", 0)
    /\ keysRead = 0
    /\ calls = 0
    /\ exitCode = -1

\* __main__: the platform check, then asyncio.run(main()).
Start ==
    /\ pc = "start"
    /\ IF os_name = "nt"
       THEN pc' = "exited" /\ exitCode' = 1
       ELSE pc' = "connect" /\ exitCode' = exitCode
    /\ UNCHANGED <<os_name, hub, call, keysRead, calls>>

\* main: await train.connect(); an exception goes to `except`, then `finally`.
Connect ==
    /\ pc = "connect"
    /\ \E devices \in ScanResults, ble \in ConnectOutcomes :
          LET st == connect(Begin(St), devices, ble) IN
          /\ Assign(st)
          /\ pc' = IF st.outcome = "raised" THEN "finally" ELSE "loop"
    /\ call' = Call("connect", "", 0)
    /\ UNCHANGED <<os_name, keysRead, calls, exitCode>>

\* One iteration of the loop: get_key() returns a key, process_key runs; an
\* exception out of process_key goes to `except`, then `finally`.
Key ==
    /\ pc = "loop"
    /\ keysRead < MaxKeys
    /\ \E key \in Keys, wr \in WriteOutcomes(is_connected) :
          LET st == process_key(Begin(St), key, wr) IN
          /\ Assign(st)
          /\ call' = Call("process_key", key, 0)
          /\ pc' = IF st.outcome = "raised" THEN "finally"
                   ELSE IF process_key_result(key) THEN "loop"
                   ELSE "finally"
    /\ keysRead' = keysRead + 1
    /\ UNCHANGED <<os_name, calls, exitCode>>

\* get_key() raises (stdin is not a terminal): caught by main's `except`.
KeyError ==
    /\ pc = "loop"
    /\ Assign([Begin(St) EXCEPT !.outcome = "raised"])
    /\ call' = Call("get_key", "", 0)
    /\ pc' = "finally"
    /\ UNCHANGED <<os_name, keysRead, calls, exitCode>>

\* The link goes down while the program waits for a key.
LinkLost ==
    /\ pc = "loop"
    /\ is_connected
    /\ is_connected' = FALSE
    /\ UNCHANGED <<pc, os_name, client, connected, current_speed, notifying,
                   scanned, device, lastSent, issued, outcome, call, keysRead,
                   calls, exitCode>>

\* Variant: the except clause does not match what the try block raised.
main_except_narrow(st) == st

\* main's `except Exception`: what the try block raised is logged, not
\* re-raised.
main_except(st) == [st EXCEPT !.outcome = "returned"]

\* Variant: the finally block disconnects first and stops afterwards.
finally_disconnect_first(st, wr1, wr2, dc) ==
    IF st.connected THEN stop(disconnect(st, wr2, dc), wr1) ELSE st

\* Variant: the finally block does not test train.connected.
finally_unguarded(st, wr1, wr2, dc) == disconnect(stop(st, wr1), wr2, dc)

\* main's finally block.
finally(st, wr1, wr2, dc) ==
    IF st.connected THEN disconnect(stop(st, wr1), wr2, dc) ELSE st

Finally ==
    /\ pc = "finally"
    /\ \E wr1 \in WriteOutcomes(is_connected), wr2 \in {"ok", "fail", "lost"},
          dc \in CallOutcomes :
          Assign(finally(Clear(main_except(St)), wr1, wr2, dc))
    /\ pc' = "finished"
    /\ UNCHANGED <<os_name, call, keysRead, calls, exitCode>>

exit_status(out) == IF out = "raised" THEN 1 ELSE 0

\* asyncio.run returns (exit status 0) or re-raises what main raised
\* (the interpreter prints the traceback and exits with status 1).
Exit ==
    /\ pc = "finished"
    /\ exitCode' = exit_status(outcome)
    /\ pc' = "exited"
    /\ UNCHANGED <<os_name, hub, call, keysRead, calls>>

Next == Start \/ Connect \/ Key \/ KeyError \/ LinkLost \/ Finally \/ Exit

Spec == Init /\ [][Next]_vars

\* The finally block and the exit of the process are straight-line code whose
\* BLE calls return or raise: once reached, they run.
SpecFair == Spec /\ WF_vars(Finally) /\ WF_vars(Exit)

(***************************************************************************)
(* A caller of the TrainHub API: any method, in any order, with speeds     *)
(* inside and outside the documented range.                                *)
(***************************************************************************)
SpeedArgs == {-228, -101, -100, -93, -4, 0, 4, 93, 100, 101, 228}

InitApi ==
    /\ pc = "api"
    /\ os_name = "posix"
    /\ Constructed
    /\ call = Call("none", "", 0)
    /\ keysRead = 0
    /\ calls = 0
    /\ exitCode = -1

\* What every direct call does besides the method's own effect.
ApiCall(c) ==
    /\ pc = "api"
    /\ calls < MaxCalls
    /\ calls' = calls + 1
    /\ call' = c
    /\ UNCHANGED <<pc, os_name, keysRead, exitCode>>

ApiConnect ==
    /\ ApiCall(Call("connect", "", 0))
    /\ \E devices \in ScanResults, ble \in ConnectOutcomes :
          Assign(connect(Begin(St), devices, ble))

ApiDisconnect ==
    /\ ApiCall(Call("disconnect", "", 0))
    /\ \E wr \in {"ok", "fail", "lost"}, dc \in CallOutcomes :
          Assign(disconnect(Begin(St), wr, dc))

ApiSetSpeed ==
    \E speed \in SpeedArgs, wr \in WriteOutcomes(is_connected) :
        /\ ApiCall(Call("set_speed", "", speed))
        /\ Assign(set_speed(Begin(St), speed, wr))

ApiStop ==
    /\ ApiCall(Call("stop", "", 0))
    /\ \E wr \in WriteOutcomes(is_connected) : Assign(stop(Begin(St), wr))

ApiIncrease ==
    /\ ApiCall(Call("increase_speed", "", 0))
    /\ \E wr \in WriteOutcomes(is_connected) :
          Assign(increase_speed(Begin(St), wr))

ApiDecrease ==
    /\ ApiCall(Call("decrease_speed", "", 0))
    /\ \E wr \in WriteOutcomes(is_connected) :
          Assign(decrease_speed(Begin(St), wr))

ApiReverse ==
    /\ ApiCall(Call("reverse_direction", "", 0))
    /\ \E wr \in WriteOutcomes(is_connected) :
          Assign(reverse_direction(Begin(St), wr))

\* Two calls of reverse_direction in a row, each with its own write: one
\* step of the caller.
ApiReverseTwice ==
    /\ ApiCall(Call("reverse_direction twice", "", 0))
    /\ \E wr1 \in WriteOutcomes(is_connected) :
          LET s1 == reverse_direction(Begin(St), wr1) IN
          \E wr2 \in WriteOutcomes(s1.is_connected) :
              Assign(reverse_direction(s1, wr2))

ApiProcessKey ==
    \E key \in Keys, wr \in WriteOutcomes(is_connected) :
        /\ ApiCall(Call("process_key", key, 0))
        /\ Assign(process_key(Begin(St), key, wr))

\* The link goes down between two calls.
ApiLinkLost ==
    /\ pc = "api"
    /\ is_connected
    /\ is_connected' = FALSE
    /\ UNCHANGED <<pc, os_name, client, connected, current_speed, notifying,
                   scanned, device, lastSent, issued, outcome, call, keysRead,
                   calls, exitCode>>

NextApi ==
    \/ ApiConnect \/ ApiDisconnect \/ ApiSetSpeed \/ ApiStop \/ ApiIncrease
    \/ ApiDecrease \/ ApiReverse \/ ApiReverseTwice \/ ApiProcessKey
    \/ ApiLinkLost

SpecApi == InitApi /\ [][NextApi]_vars

(***************************************************************************)
(* Properties.                                                             *)
(***************************************************************************)
\* The command that stops the train: the header and a power byte of 0.
StopWrite == [op |-> "write_gatt_char", data |-> <<8, 0, 129, 0, 17, 81, 1, 0>>]

\* main's loop has run and ended, by a quit key or by an exception of get_key,
\* and the finally block has completed.
TornDownAfterLoop ==
    /\ pc = "finished"
    /\ \/ call.op = "process_key" /\ call.key \in {"q", "Q"}
       \/ call.op = "get_key"

\* C1: in every reachable state current_speed is the speed of the last
\* command whose write succeeded (0 when none has); a set_speed whose write
\* fails leaves current_speed at the previously transmitted value.
C1_SpeedIsLastTransmitted == current_speed = lastSent

\* The byte the claim C2 expects as the last byte of the command.
C2_ExpectedByte(speed) == IF speed >= 0 THEN speed ELSE 128 + (-speed)

C2_ExpectedIssue(speed) ==
    /\ Len(issued) = 1
    /\ issued[1].op = "write_gatt_char"
    /\ issued[1].data = <<8, 0, 129, 0, 17, 81, 1, C2_ExpectedByte(speed)>>
    /\ issued[1].data[8] \in (0..100) \cup (128..228)

\* C2 as stated: for every speed in [-100, 100], set_speed(speed) writes
\* exactly one 8-byte command: the fixed header, then speed when speed >= 0
\* and 128 + (-speed) when speed < 0.
C2_OneCommandPerSetSpeed ==
    (call.op = "set_speed" /\ -100 <= call.speed /\ call.speed <= 100)
        => C2_ExpectedIssue(call.speed)

\* C2 as amended: the same, for a hub whose BLE client exists (connect() has
\* created it); without a client set_speed issues no write.
C2_OneCommandPerSetSpeedWithClient ==
    (call.op = "set_speed" /\ -100 <= call.speed /\ call.speed <= 100)
        => IF client THEN C2_ExpectedIssue(call.speed) ELSE issued = <<>>

C2_Witness ==
    /\ call.op = "set_speed"
    /\ call.speed = -93
    /\ Len(issued) = 1
    /\ issued[1].data[8] = 221

\* C3: for every speed outside [-100, 100], set_speed(speed) leaves
\* current_speed unchanged and issues no BLE write.
C3_OutOfRangeChangesNothing ==
    [][(/\ calls' = calls + 1
        /\ call'.op = "set_speed"
        /\ (call'.speed < -100 \/ call'.speed > 100))
          => (current_speed' = current_speed /\ issued' = <<>>)]_vars

C3_Witness ==
    /\ call.op = "set_speed"
    /\ call.speed = 101
    /\ client
    /\ is_connected
    /\ current_speed = 93
    /\ issued = <<>>

\* C4: for every speed outside [-100, 100], set_speed(speed) fails with
\* ValueError: its caller observes an error, not a normal return.
C4_OutOfRangeRaises ==
    (call.op = "set_speed" /\ (call.speed < -100 \/ call.speed > 100))
        => outcome = "raised"

\* C5: current_speed stays within [-100, 100] whatever keys are pressed and
\* whether writes succeed or fail: increase_speed never produces a value
\* above 100, decrease_speed never one below -100.
C5_SpeedInRange == -100 <= current_speed /\ current_speed <= 100

\* 'w' at 93 (the last transmitted speed): the write failed, the speed is 100.
C5_Witness ==
    /\ call.op = "process_key"
    /\ call.key = "w"
    /\ lastSent = 93
    /\ current_speed = 100

\* C6 as stated: when 'q' is the first key after a successful connect,
\* teardown issues exactly one speed-0 write, followed by exactly one BLE
\* disconnect.
C6_QuitStopsOnceThenDisconnects ==
    (pc = "finished" /\ keysRead = 1 /\ call.key \in {"q", "Q"})
        => issued = <<StopWrite, Op("disconnect")>>

\* C6 as amended: stop() runs twice, once from main's finally block and once
\* inside disconnect(): two speed-0 writes, then exactly one BLE disconnect;
\* when the client reports the link down by the time disconnect() checks it,
\* one speed-0 write and no BLE disconnect.
C6_QuitStopsTwiceThenDisconnects ==
    (pc = "finished" /\ keysRead = 1 /\ call.key \in {"q", "Q"})
        => \/ issued = <<StopWrite, StopWrite, Op("disconnect")>>
           \/ issued = <<StopWrite>> /\ ~is_connected

C6_Witness ==
    /\ pc = "finished"
    /\ keysRead = 1
    /\ call.key = "q"
    /\ issued = <<StopWrite, StopWrite, Op("disconnect")>>
    /\ ~connected

C8_NoHubNoConnection ==
    scanned = "no_hub"
        => /\ pc \in {"finally", "finished", "exited"}
           /\ pc = "finally" => outcome = "raised"
           /\ call.op = "connect"
           /\ ~client
           /\ ~connected
           /\ ~is_connected
           /\ keysRead = 0
           /\ \A i \in 1..Len(issued) : issued[i].op = "discover"

C8_Witness == scanned = "no_hub" /\ pc = "exited" /\ issued = <<>>

\* C9 as stated: when discovery finds no hub, the program exits with a
\* non-zero exit status.
C9_NoHubExitsNonZero == (pc = "exited" /\ scanned = "no_hub") => exitCode # 0

\* C9 as amended: main logs the error and returns; the exit status is 0.
C9_NoHubExitsZero == (pc = "exited" /\ scanned = "no_hub") => exitCode = 0

C9_Witness == pc = "exited" /\ scanned = "no_hub" /\ exitCode = 0

\* The key table of C10.
C10_KeyTable(key, s) ==
    CASE key \in {"w", "W", "A"} -> IF s + 10 > 100 THEN 100 ELSE s + 10
      [] key \in {"s", "S", "B"} -> IF s - 10 < -100 THEN -100 ELSE s - 10
      [] key = " " -> 0
      [] key \in {"r", "R"} -> -s
      [] OTHER -> s

\* C10: each key transforms current_speed = s as the key table says:
\* w/W/A gives min(100, s+10), s/S/B gives max(-100, s-10), space gives 0,
\* r/R gives -s.
C10_KeysFollowTable ==
    [][((calls' = calls + 1 \/ keysRead' = keysRead + 1)
            /\ call'.op = "process_key")
          => current_speed' = C10_KeyTable(call'.key, current_speed)]_vars

\* 's' at -93 (the last transmitted speed): the speed is -100.
C10_Witness ==
    /\ call.op = "process_key"
    /\ call.key = "s"
    /\ lastSent = -93
    /\ current_speed = -100

\* C11: two consecutive reverse_direction calls restore the original
\* current_speed, whether or not the writes in between succeed; at
\* current_speed = 0 a single reverse_direction leaves it at 0.
C11_ReverseTwiceRestores ==
    [][/\ (calls' = calls + 1 /\ call'.op = "reverse_direction twice")
            => current_speed' = current_speed
       /\ (calls' = calls + 1 /\ call'.op = "reverse_direction"
            /\ current_speed = 0)
            => current_speed' = 0]_vars

\* Reversed twice from 93 (the last transmitted speed), the first write
\* succeeded and the second failed: the speed is 93, the hub was sent -93.
C11_Witness ==
    /\ call.op = "reverse_direction twice"
    /\ current_speed = 93
    /\ lastSent = -93
    /\ Len(issued) = 2

\* C12: a BLE write failure during interactive control never ends the input
\* loop: set_speed catches it, process_key returns normally and, unless the
\* key was q/Q, the program is back at get_key for the next key.
C12_WriteFailureKeepsLoop ==
    [][(pc = "loop" /\ keysRead' = keysRead + 1 /\ call'.key \notin {"q", "Q"})
          => (pc' = "loop" /\ outcome' = "returned")]_vars

\* Two presses of 'w' whose writes both failed on a link that is up: nothing
\* was transmitted, and the loop is at get_key again.
C12_Witness ==
    /\ pc = "loop"
    /\ keysRead = 2
    /\ call.key = "w"
    /\ current_speed = 20
    /\ lastSent = 0
    /\ is_connected
    /\ Len(issued) = 1

\* C13: disconnect() called while the connected flag is true stops the train,
\* closes the BLE connection and leaves connected = FALSE; so once teardown
\* has completed, connected is FALSE.  (Teardown has issued something exactly
\* when it found the connected flag TRUE.)
C13_TeardownDisconnects ==
    (pc = "finished" /\ outcome = "returned" /\ issued # <<>>)
        => /\ \E i \in 1..Len(issued) : issued[i] = StopWrite
           /\ issued[Len(issued)] = Op("disconnect")
           /\ ~connected

\* C14: no motor command is written to the hub before the notification
\* subscription and the settle delay that follow the BLE connection have
\* completed, on every path, failed connects included.
C14_NoWriteBeforeSettled ==
    (\E i \in 1..Len(issued) : issued[i].op = "write_gatt_char") => notifying

\* C15: a key ends the loop exactly when it is q or Q; the loop ends only by
\* such a key or by an exception going out of it; once it has ended no
\* further key is read, and after a quit key the program goes through
\* teardown and exits.
C15_QuitEndsLoop ==
    /\ [][keysRead' = keysRead + 1
            => (pc' = "finally" <=> call'.key \in {"q", "Q"})]_vars
    /\ [][(pc = "loop" /\ pc' # "loop")
            => (call'.op = "get_key" \/ call'.key \in {"q", "Q"})]_vars
    /\ [][pc # "loop" => keysRead' = keysRead]_vars
    /\ ((pc = "finally" /\ call.key \in {"q", "Q"}) ~> pc = "exited")

C15_Witness ==
    /\ pc = "exited"
    /\ call.key = "Q"
    /\ keysRead = 3
    /\ exitCode = 0

\* C16: a key outside w/W/A, s/S/B, space, r/R, q/Q is a no-op: it leaves
\* current_speed and connected unchanged, issues no BLE write, and the loop
\* continues.
C16_OtherKeyIsNoOp ==
    [][(/\ keysRead' = keysRead + 1
        /\ call'.key \notin {"w", "W", "A", "s", "S", "B", " ", "r", "R",
                             "q", "Q"})
          => /\ current_speed' = current_speed
             /\ connected' = connected
             /\ issued' = <<>>
             /\ pc' = "loop"]_vars

\* 'x' pressed as the fourth key at speed 30.
C16_Witness ==
    /\ pc = "loop"
    /\ keysRead = 4
    /\ call.key = "x"
    /\ current_speed = 30
    /\ connected
    /\ issued = <<>>

\* C17: on every path through main a BLE write is issued only while the
\* connected flag is TRUE: the handler that issues it starts with connected
\* TRUE, and no write follows the BLE disconnect that clears the flag.
C17_WritesOnlyWhileConnected ==
    [][(/\ pc \in {"connect", "loop", "finally"}
        /\ (pc' # pc \/ keysRead' # keysRead)
        /\ \E i \in 1..Len(issued') : issued'[i].op = "write_gatt_char")
          => /\ connected
             /\ \A i, j \in 1..Len(issued') :
                   (issued'[i].op = "disconnect"
                        /\ issued'[j].op = "write_gatt_char") => j < i]_vars

\* Teardown after a key: two stop writes, then the disconnect that clears
\* the flag.
C17_Witness ==
    /\ pc = "finished"
    /\ keysRead > 0
    /\ ~connected
    /\ issued = <<StopWrite, StopWrite, Op("disconnect")>>

\* The power bytes of the speeds -100, -90, ..., 90, 100.
C18_StepBytes == {10 * k : k \in 0..10} \cup {128 + 10 * k : k \in 1..10}

\* C18: under keyboard control current_speed is a multiple of 10 in every
\* reachable state, and every command written carries one of the speeds
\* -100, -90, ..., 90, 100.
C18_SpeedMultipleOfTen ==
    /\ \E k \in -10..10 : current_speed = 10 * k
    /\ \A i \in 1..Len(issued) :
          issued[i].op = "write_gatt_char" => issued[i].data[8] \in C18_StepBytes

\* Ten presses of 's': the command for -100 is written.
C18_Witness ==
    /\ keysRead = 10
    /\ call.key = "s"
    /\ current_speed = -100
    /\ issued = <<[op |-> "write_gatt_char",
                   data |-> <<8, 0, 129, 0, 17, 81, 1, 228>>]>>

====
